---- MODULE Spec2Model ----
(***************************************************************************)
(* Startup Expenditure API (src/main.py, src/schemas.py): the request      *)
(* handlers for categories, expenses and budgets over a document store.    *)
(* Python values are tagged records, so that None, str, numbers, datetime  *)
(* and the store's ObjectId stay distinguishable.                          *)
(***************************************************************************)
EXTENDS Integers, Sequences, FiniteSets, TLC

VARIABLES db, env, store, nextOid, now, last, pending

vars == <<db, env, store, nextOid, now, last, pending>>

\* ---------------------------------------------------------------- bounds
MaxDocs == 2
MaxClock == 1

\* ---------------------------------------------------------------- values
NoneV == [t |-> "NoneType"]
Str(s) == [t |-> "str", s |-> s]
Num(n) == [t |-> "number", n |-> n]
Datetime(k) == [t |-> "datetime", tick |-> k]
ObjectId(i) == [t |-> "ObjectId", oid |-> i]
Database == [t |-> "Database", name |-> "expenditure"]

Digits == <<"0", "1", "2", "3", "4", "5", "6", "7", "8", "9">>

IsStr(x) == x.t = "str"
IsNum(x) == x.t = "number"
IsDatetime(x) == x.t = "datetime"

Ticks == 0 .. 9

\* datetime.isoformat()
isoformat(d) == Str("2024-01-01T00:00:0" \o Digits[d.tick + 1])

\* the other textual form of the same instant that datetime parsing accepts
IsoSpace(k) == Str("2024-01-01 00:00:0" \o Digits[k + 1])

\* str(ObjectId)
str(x) == IF x.t = "ObjectId" THEN Str("65f0c0ffee0000000000000" \o Digits[x.oid + 1])
          ELSE x

\* dict.get(key)
Get(d, k) == IF k \in DOMAIN d THEN d[k] ELSE NoneV

\* {**a, **b}: the keys of b override those of a
DictMerge(a, b) == [k \in DOMAIN a \cup DOMAIN b |-> IF k \in DOMAIN b THEN b[k] ELSE a[k]]

EmptyDict == [k \in {} |-> NoneV]

Collections == {"category", "expense", "budget"}

\* ------------------------------------------------------- request payloads
CategoryInputs ==
  { [name |-> Str("Cloud"), color |-> Str("#22c55e")],
    [name |-> Str("Ads"), _id |-> Str("client-id")],
    [color |-> Str("#22c55e")] }

ExpenseInputs ==
  { [title |-> Str("AWS bill"), amount |-> Num(5)],
    [title |-> Str("AWS bill"), amount |-> Num(5), date |-> NoneV, _id |-> Str("client-id")],
    [title |-> Str("Rent"), amount |-> Num(0), category_id |-> Str("c1"),
     date |-> IsoSpace(1), vendor |-> Str("Landlord")],
    [title |-> Str("Refund"), amount |-> Num(-1)],
    [amount |-> Num(5)] }

BudgetInputs ==
  { [month |-> Num(3), year |-> Num(2024), limit |-> Num(100), category_id |-> Str("c1")],
    [month |-> Num(12), year |-> Num(2024), limit |-> Num(0), category_id |-> Str("c1")],
    [month |-> Num(3), year |-> Num(2100), limit |-> Num(100), _id |-> Str("client-id")],
    [month |-> Num(0), year |-> Num(2024), limit |-> Num(100)],
    [month |-> Num(13), year |-> Num(2024), limit |-> Num(100)],
    [month |-> Num(3), year |-> Num(1999), limit |-> Num(100)],
    [month |-> Num(3), year |-> Num(2101), limit |-> Num(100)],
    [month |-> Num(3), year |-> Num(2024), limit |-> Num(-1)],
    [month |-> Num(3), limit |-> Num(100)] }

\* query strings of GET /api/expenses and GET /api/budgets
LimitInputs == {NoneV} \cup {Num(n) : n \in 0 .. MaxDocs}

BudgetQueries ==
  [month : {NoneV, Num(3)}, year : {NoneV, Num(2024)}, category_id : {NoneV, Str("c1")}]

\* ------------------------------------------------------------- validation
\* Optional[str] field: absent, null or a string
OptionalStr(p, k) == k \in DOMAIN p => (p[k] = NoneV \/ IsStr(p[k]))

\* datetime parsing of a request field
IsDatetimeText(x) == IsStr(x) /\ \E k \in Ticks : x \in {isoformat(Datetime(k)), IsoSpace(k)}
ParseDatetime(x) == Datetime(CHOOSE k \in Ticks : x \in {isoformat(Datetime(k)), IsoSpace(k)})

\* class CategoryIn
CategoryIn(p) ==
  /\ "name" \in DOMAIN p /\ IsStr(p.name)
  /\ OptionalStr(p, "color")

\* ExpenseIn with the ge=0 bound of amount left out
ExpenseIn_unbounded(p) ==
  /\ "title" \in DOMAIN p /\ IsStr(p.title)
  /\ "amount" \in DOMAIN p /\ IsNum(p.amount)
  /\ OptionalStr(p, "category_id")
  /\ "date" \in DOMAIN p => (p.date = NoneV \/ IsDatetimeText(p.date))
  /\ OptionalStr(p, "vendor")
  /\ OptionalStr(p, "payment_method")
  /\ OptionalStr(p, "notes")

\* class ExpenseIn
ExpenseIn(p) ==
  /\ "title" \in DOMAIN p /\ IsStr(p.title)
  /\ "amount" \in DOMAIN p /\ IsNum(p.amount) /\ p.amount.n >= 0
  /\ OptionalStr(p, "category_id")
  /\ "date" \in DOMAIN p => (p.date = NoneV \/ IsDatetimeText(p.date))
  /\ OptionalStr(p, "vendor")
  /\ OptionalStr(p, "payment_method")
  /\ OptionalStr(p, "notes")

\* class BudgetIn
BudgetIn(p) ==
  /\ OptionalStr(p, "category_id")
  /\ "month" \in DOMAIN p /\ IsNum(p.month) /\ p.month.n >= 1 /\ p.month.n <= 12
  /\ "year" \in DOMAIN p /\ IsNum(p.year) /\ p.year.n >= 2000 /\ p.year.n <= 2100
  /\ "limit" \in DOMAIN p /\ IsNum(p.limit) /\ p.limit.n >= 0

\* model_dump() of a model that keeps undeclared fields
CategoryDump_allowExtra(p) == DictMerge([k \in {"name", "color"} |-> Get(p, k)], p)

\* payload.model_dump(): the declared fields only, defaults filled in
CategoryDump(p) == [k \in {"name", "color"} |-> Get(p, k)]

ExpenseDump(p) ==
  [k \in {"title", "amount", "category_id", "date", "vendor", "payment_method", "notes"} |->
     IF k = "date" /\ Get(p, k) # NoneV THEN ParseDatetime(p[k]) ELSE Get(p, k)]

BudgetDump(p) == [k \in {"category_id", "month", "year", "limit"} |-> Get(p, k)]

\* ----------------------------------------------------------------- helper
\* ensure_db() that never raises
ensure_db_skipped == TRUE

\* ensure_db(): TRUE when it returns, FALSE when it raises
ensure_db == db # NoneV

\* ------------------------------------------------------- the store gateway
\* the document insert_one stores for the record: the store assigns the identifier
NewDocument(data) == DictMerge(data, [_id |-> ObjectId(nextOid)])

\* create_document(collection_name, data): the insert
create_document(coll, data) ==
  /\ nextOid < MaxDocs
  /\ store' = [store EXCEPT ![coll] = @ \cup {NewDocument(data)}]
  /\ nextOid' = nextOid + 1

\* the identifier create_document returns
InsertedId == str(ObjectId(nextOid))

\* the orders in which a cursor may yield a set of documents
Orderings(S) ==
  {s \in [1 .. Cardinality(S) -> S] : \A d \in S : \E i \in 1 .. Cardinality(S) : s[i] = d}

Take(s, n) == SubSeq(s, 1, IF n < Len(s) THEN n ELSE Len(s))

\* get_documents(collection_name, filter_dict, limit): the possible results
get_documents(coll, filt, limit) ==
  LET match == {d \in store[coll] : \A k \in DOMAIN filt : k \in DOMAIN d /\ d[k] = filt[k]}
  IN  {IF limit = NoneV THEN s ELSE Take(s, limit.n) : s \in Orderings(match)}

\* -------------------------------------------------------------- responses
NoInput == EmptyDict
NoBody == EmptyDict

Reply(op, input, status, error, body, calls) ==
  [op |-> op, input |-> input, status |-> status, error |-> error,
   body |-> body, storeCalls |-> calls]

Respond(r) == last' = r

ValidationError(op, input) == Reply(op, input, 422, "ValidationError", NoBody, 0)
StoreUnavailable(op, input) == Reply(op, input, 500, "StoreUnavailable", NoBody, 0)
PersistenceError(op, input) == Reply(op, input, 500, "PersistenceError", NoBody, 1)

\* ----------------------------------------------------- category endpoints
\* return {"_id": _id, **payload.model_dump()}
CreatedBody(id, data) == DictMerge([_id |-> id], data)

create_category(payload) ==
  /\ UNCHANGED <<db, env, now, pending>>
  /\ IF ~CategoryIn(payload)
       THEN Respond(ValidationError("create_category", payload)) /\ UNCHANGED <<store, nextOid>>
     ELSE IF ~ensure_db
       THEN Respond(StoreUnavailable("create_category", payload)) /\ UNCHANGED <<store, nextOid>>
     ELSE \/ Respond(PersistenceError("create_category", payload)) /\ UNCHANGED <<store, nextOid>>
          \/ /\ create_document("category", CategoryDump(payload))
             /\ Respond(Reply("create_category", payload, 200, "",
                              CreatedBody(InsertedId, CategoryDump(payload)), 1))

\* the identifier left as the store returns it
StringifyId_missing(it) == it

\* it["_id"] = str(it["_id"]) when present
StringifyId(it) == IF "_id" \in DOMAIN it THEN [it EXCEPT !["_id"] = str(@)] ELSE it

\* list_categories returning the items as fetched
NormalizeCategories_raw(items) == items

NormalizeCategories(items) == [i \in 1 .. Len(items) |-> StringifyId(items[i])]

\* list_categories whose in-place normalization reaches the stored documents
list_categories_inplace ==
  /\ UNCHANGED <<db, env, now, pending, nextOid>>
  /\ IF ~ensure_db
       THEN Respond(StoreUnavailable("list_categories", NoInput)) /\ UNCHANGED store
     ELSE \/ Respond(PersistenceError("list_categories", NoInput)) /\ UNCHANGED store
          \/ \E items \in get_documents("category", EmptyDict, NoneV) :
               /\ Respond(Reply("list_categories", NoInput, 200, "", NormalizeCategories(items), 1))
               /\ store' = [store EXCEPT !["category"] = {StringifyId(d) : d \in @}]

list_categories ==
  /\ UNCHANGED <<db, env, now, pending, store, nextOid>>
  /\ IF ~ensure_db
       THEN Respond(StoreUnavailable("list_categories", NoInput))
     ELSE \/ Respond(PersistenceError("list_categories", NoInput))
          \/ \E items \in get_documents("category", EmptyDict, NoneV) :
               Respond(Reply("list_categories", NoInput, 200, "", NormalizeCategories(items), 1))

\* ------------------------------------------------------ expense endpoints
\* create_expense without the defaulting of date
ExpenseData_nodefault(payload) == ExpenseDump(payload)

\* data = payload.model_dump(); if not data.get("date"): data["date"] = datetime.utcnow()
ExpenseData(payload) ==
  LET data == ExpenseDump(payload)
  IN  IF Get(data, "date") = NoneV THEN [data EXCEPT !["date"] = Datetime(now)] ELSE data

create_expense(payload) ==
  /\ UNCHANGED <<db, env, now, pending>>
  /\ IF ~ExpenseIn(payload)
       THEN Respond(ValidationError("create_expense", payload)) /\ UNCHANGED <<store, nextOid>>
     ELSE IF ~ensure_db
       THEN Respond(StoreUnavailable("create_expense", payload)) /\ UNCHANGED <<store, nextOid>>
     ELSE \/ Respond(PersistenceError("create_expense", payload)) /\ UNCHANGED <<store, nextOid>>
          \/ /\ create_document("expense", ExpenseData(payload))
             /\ Respond(Reply("create_expense", payload, 200, "",
                              CreatedBody(InsertedId, ExpenseData(payload)), 1))

\* if isinstance(it.get("date"), datetime): it["date"] = it["date"].isoformat()
FormatDate(it) ==
  IF IsDatetime(Get(it, "date")) THEN [it EXCEPT !["date"] = isoformat(@)] ELSE it

NormalizeExpenses(items) == [i \in 1 .. Len(items) |-> FormatDate(StringifyId(items[i]))]

\* list_expenses not passing its limit on
ExpenseItems_unlimited(limit) == get_documents("expense", EmptyDict, NoneV)

\* get_documents("expense", limit=limit)
ExpenseItems(limit) == get_documents("expense", EmptyDict, limit)

list_expenses(limit) ==
  /\ UNCHANGED <<db, env, now, pending, store, nextOid>>
  /\ IF ~ensure_db
       THEN Respond(StoreUnavailable("list_expenses", [limit |-> limit]))
     ELSE \/ Respond(PersistenceError("list_expenses", [limit |-> limit]))
          \/ \E items \in ExpenseItems(limit) :
               Respond(Reply("list_expenses", [limit |-> limit], 200, "",
                             NormalizeExpenses(items), 1))

\* ------------------------------------------------------- budget endpoints
create_budget(payload) ==
  /\ UNCHANGED <<db, env, now, pending>>
  /\ IF ~BudgetIn(payload)
       THEN Respond(ValidationError("create_budget", payload)) /\ UNCHANGED <<store, nextOid>>
     ELSE IF ~ensure_db
       THEN Respond(StoreUnavailable("create_budget", payload)) /\ UNCHANGED <<store, nextOid>>
     ELSE \/ Respond(PersistenceError("create_budget", payload)) /\ UNCHANGED <<store, nextOid>>
          \/ /\ create_document("budget", BudgetDump(payload))
             /\ Respond(Reply("create_budget", payload, 200, "",
                              CreatedBody(InsertedId, BudgetDump(payload)), 1))

\* list_budgets leaving the year out of the filter
BudgetFilter_noyear(q) == [k \in {k \in {"month", "category_id"} : q[k] # NoneV} |-> q[k]]

\* filt: one key per query parameter that is not None
BudgetFilter(q) == [k \in {k \in {"month", "year", "category_id"} : q[k] # NoneV} |-> q[k]]

NormalizeBudgets(items) == [i \in 1 .. Len(items) |-> StringifyId(items[i])]

list_budgets(q) ==
  /\ UNCHANGED <<db, env, now, pending, store, nextOid>>
  /\ IF ~ensure_db
       THEN Respond(StoreUnavailable("list_budgets", q))
     ELSE \/ Respond(PersistenceError("list_budgets", q))
          \/ \E items \in get_documents("budget", BudgetFilter(q), NoneV) :
               Respond(Reply("list_budgets", q, 200, "", NormalizeBudgets(items), 1))

\* ------------------------------------------------- health and diagnostics
read_root ==
  /\ UNCHANGED <<db, env, now, pending, store, nextOid>>
  /\ Respond(Reply("read_root", NoInput, 200, "",
                   [message |-> Str("Startup Expenditure API is running")], 0))

\* db.list_collection_names(): the collections that hold documents
CollectionNames == SelectSeq(<<"budget", "category", "expense">>, LAMBDA c : store[c] # {})

EnvStatus(name) == IF name \in env THEN "Set" ELSE "Not Set"

test_database ==
  /\ UNCHANGED <<db, env, now, pending, store, nextOid>>
  /\ IF db # NoneV
       THEN \/ Respond(Reply("test_database", NoInput, 200, "",
                             [backend |-> "Running", database |-> "Connected & Working",
                              database_url |-> EnvStatus("DATABASE_URL"),
                              database_name |-> EnvStatus("DATABASE_NAME"),
                              connection_status |-> "Connected",
                              collections |-> Take(CollectionNames, 10)], 1))
            \/ Respond(Reply("test_database", NoInput, 200, "",
                             [backend |-> "Running", database |-> "Connected but Error",
                              database_url |-> EnvStatus("DATABASE_URL"),
                              database_name |-> EnvStatus("DATABASE_NAME"),
                              connection_status |-> "Connected",
                              collections |-> << >>], 1))
       ELSE Respond(Reply("test_database", NoInput, 200, "",
                          [backend |-> "Running", database |-> "Available but not initialized",
                           database_url |-> EnvStatus("DATABASE_URL"),
                           database_name |-> EnvStatus("DATABASE_NAME"),
                           connection_status |-> "Not Connected",
                           collections |-> << >>], 0))

\* ------------------------------------------------------------ environment
\* the clock datetime.utcnow() reads
Tick ==
  /\ now < MaxClock
  /\ now' = now + 1
  /\ UNCHANGED <<db, env, store, nextOid, last, pending>>

\* ------------------------------------------- concurrent create requests
\* Requests run concurrently (one per worker); the only shared state a create
\* handler touches is the store, in the single insert create_document makes.
Workers == {1, 2}

Idle == [phase |-> "idle"]

CreateOps == {"create_category", "create_expense", "create_budget"}
ListOps == {"list_categories", "list_expenses", "list_budgets"}

\* the request model each create handler declares for its payload
PayloadValid(op, p) ==
  CASE op = "create_category" -> CategoryIn(p)
    [] op = "create_expense" -> ExpenseIn(p)
    [] op = "create_budget" -> BudgetIn(p)

\* the record each create handler passes to create_document
RecordOf(op, p) ==
  CASE op = "create_category" -> CategoryDump(p)
    [] op = "create_expense" -> ExpenseData(p)
    [] op = "create_budget" -> BudgetDump(p)

\* the collection each create handler names
CollectionOf(op) ==
  CASE op = "create_category" -> "category"
    [] op = "create_expense" -> "expense"
    [] op = "create_budget" -> "budget"

ConcurrentRequests ==
  { <<"create_category", [name |-> Str("Ads"), _id |-> Str("client-id")]>>,
    <<"create_expense", [title |-> Str("AWS bill"), amount |-> Num(5)]>>,
    <<"create_expense", [title |-> Str("Refund"), amount |-> Num(-1)]>>,
    <<"create_budget", [month |-> Num(3), year |-> Num(2100), limit |-> Num(100),
                        _id |-> Str("client-id")]>> }

Done(reply, overlapped) == [phase |-> "done", resp |-> reply, overlapped |-> overlapped]

\* a handler runs up to its call of create_document
begin_create(w, op, payload) ==
  /\ pending[w].phase # "called"
  /\ pending' = [pending EXCEPT ![w] =
       IF ~PayloadValid(op, payload) THEN Done(ValidationError(op, payload), FALSE)
       ELSE IF ~ensure_db THEN Done(StoreUnavailable(op, payload), FALSE)
       ELSE [phase |-> "called", op |-> op, input |-> payload, data |-> RecordOf(op, payload)]]
  /\ UNCHANGED <<db, env, store, nextOid, now, last>>

\* create_document inserts (or fails) and the handler returns
finish_create(w) ==
  /\ pending[w].phase = "called"
  /\ LET r == pending[w]
     IN  \/ /\ pending' = [pending EXCEPT ![w] = Done(PersistenceError(r.op, r.input), FALSE)]
            /\ UNCHANGED <<store, nextOid>>
         \/ /\ create_document(CollectionOf(r.op), r.data)
            /\ pending' = [pending EXCEPT ![w] =
                 Done(Reply(r.op, r.input, 200, "", CreatedBody(InsertedId, r.data), 1),
                      \E v \in Workers \ {w} : pending[v].phase = "called")]
  /\ UNCHANGED <<db, env, now, last>>

\* ---------------------------------------------------------- specification
Init ==
  /\ \/ db = NoneV /\ env \in SUBSET {"DATABASE_URL", "DATABASE_NAME"}
     \/ db = Database /\ env = {"DATABASE_URL", "DATABASE_NAME"}
  /\ store = [c \in Collections |-> {}]
  /\ nextOid = 0
  /\ now = 0
  /\ last = Reply("none", NoInput, 0, "", NoBody, 0)
  /\ pending = [w \in Workers |-> Idle]

Next ==
  \/ \E p \in CategoryInputs : create_category(p)
  \/ list_categories
  \/ \E p \in ExpenseInputs : create_expense(p)
  \/ \E n \in LimitInputs : list_expenses(n)
  \/ \E p \in BudgetInputs : create_budget(p)
  \/ \E q \in BudgetQueries : list_budgets(q)
  \/ read_root
  \/ test_database
  \/ Tick

Spec == Init /\ [][Next]_vars

NextConc ==
  \/ \E w \in Workers : \E r \in ConcurrentRequests : begin_create(w, r[1], r[2])
  \/ \E w \in Workers : finish_create(w)
  \/ Tick

SpecConc == Init /\ [][NextConc]_vars

\* ------------------------------------------------------------ properties
AllDocs == UNION {store[c] : c \in Collections}

DataOps == CreateOps \cup ListOps

\* schemas.py, class Budget: period is the literal "month"
BudgetPeriod == Str("month")

\* the request omits a required field or carries a number outside its declared bound
Rejected(op, p) ==
  CASE op = "create_category" -> "name" \notin DOMAIN p
    [] op = "create_expense" ->
         \/ "title" \notin DOMAIN p
         \/ "amount" \notin DOMAIN p
         \/ p.amount.n < 0
    [] op = "create_budget" ->
         \/ {"month", "year", "limit"} \ DOMAIN p # {}
         \/ p.month.n < 1 \/ p.month.n > 12
         \/ p.year.n < 2000 \/ p.year.n > 2100
         \/ p.limit.n < 0
    [] OTHER -> FALSE

\* C1 (as stated): with db None every create and list request, whatever its
\* payload, fails with StoreUnavailable and makes no store call.
C1_Original ==
  (db = NoneV /\ last.op \in DataOps) =>
     /\ last.status = 500 /\ last.error = "StoreUnavailable"
     /\ last.storeCalls = 0

\* C1 (amended): with db None every create and list request makes no store
\* call and stores nothing; it fails with StoreUnavailable (status 500) when its
\* payload passes validation, and with ValidationError when the payload omits
\* a required field or violates a declared bound.
C1_Amended ==
  db = NoneV =>
     /\ AllDocs = {}
     /\ last.op \in DataOps =>
          /\ last.storeCalls = 0
          /\ IF Rejected(last.op, last.input)
               THEN last.status = 422 /\ last.error = "ValidationError"
               ELSE last.status = 500 /\ last.error = "StoreUnavailable"

C1_Witness ==
  /\ db = NoneV
  /\ last.op = "create_expense" /\ ~Rejected(last.op, last.input)
  /\ last.error = "StoreUnavailable"

\* what a rejected create answers, and the bounds of what is stored
C2_State ==
  /\ (last.op \in CreateOps /\ Rejected(last.op, last.input)) =>
        /\ last.status = 422 /\ last.error = "ValidationError"
        /\ last.storeCalls = 0
  /\ \A d \in store["expense"] : IsNum(d.amount) /\ d.amount.n >= 0
  /\ \A d \in store["budget"] :
        /\ IsNum(d.limit) /\ d.limit.n >= 0
        /\ IsNum(d.month) /\ d.month.n >= 1 /\ d.month.n <= 12
        /\ IsNum(d.year) /\ d.year.n >= 2000 /\ d.year.n <= 2100

\* a rejected create changes nothing in the store
C2_Step ==
  (last' # last /\ last'.op \in CreateOps /\ Rejected(last'.op, last'.input)) =>
     store' = store /\ nextOid' = nextOid

\* C2: a create whose payload omits a required field or violates a declared
\* bound fails with ValidationError before any store call and leaves the stored
\* documents unchanged; every stored expense has amount >= 0 and every stored
\* budget has limit >= 0, 1 <= month <= 12 and 2000 <= year <= 2100.
C2_ValidationShortCircuits == []C2_State /\ [][C2_Step]_vars

C2_Witness ==
  /\ AllDocs # {}
  /\ last.op = "create_budget" /\ Rejected(last.op, last.input)
  /\ last.error = "ValidationError"

\* the lists a list request could return right after the create in last, with a
\* filter matching the created record where the endpoint has filters
ListAfterCreate ==
  CASE last.op = "create_category" ->
         {NormalizeCategories(items) : items \in get_documents("category", EmptyDict, NoneV)}
    [] last.op = "create_expense" ->
         {NormalizeExpenses(items) : items \in ExpenseItems(NoneV)}
    [] last.op = "create_budget" ->
         {NormalizeBudgets(items) :
            items \in get_documents("budget",
                        BudgetFilter([month |-> last.input.month, year |-> last.input.year,
                                      category_id |-> Get(last.input, "category_id")]),
                        NoneV)}

DeclaredFields(op) ==
  CASE op = "create_category" -> {"name", "color"}
    [] op = "create_expense" ->
         {"title", "amount", "category_id", "date", "vendor", "payment_method", "notes"}
    [] op = "create_budget" -> {"category_id", "month", "year", "limit"}

\* r carries a non-empty identifier string that the input did not contain
HasAssignedId(r, input) ==
  /\ "_id" \in DOMAIN r /\ IsStr(r["_id"]) /\ r["_id"].s # ""
  /\ \A k \in DOMAIN input : input[k] # r["_id"]

\* C3 (as stated): after a successful create, a list of the same collection
\* returns a record whose fields equal the input fields (a field left out
\* counting as null), plus a non-empty store-assigned identifier.
C3_Original ==
  (last.op \in CreateOps /\ last.status = 200) =>
     \A listing \in ListAfterCreate :
        \E i \in 1 .. Len(listing) :
           /\ HasAssignedId(listing[i], last.input)
           /\ listing[i]["_id"] = last.body["_id"]
           /\ \A k \in DeclaredFields(last.op) :
                 k \in DOMAIN listing[i] /\ listing[i][k] = Get(last.input, k)

\* the date a listed expense carries for the input: the ISO-8601 text of the
\* instant the input names, or of a clock reading when the input names none
ListedDateFor(input, date) ==
  IF Get(input, "date") = NoneV
    THEN \E k \in 0 .. now : date = isoformat(Datetime(k))
    ELSE \E k \in Ticks : /\ input.date \in {isoformat(Datetime(k)), IsoSpace(k)}
                          /\ date = isoformat(Datetime(k))

\* C3 (amended): after a successful create, a list of the same collection
\* returns a record with the identifier the create returned (a non-empty string
\* absent from the input) whose fields equal the input fields (a field left
\* out counting as null), except an expense's date, which is the ISO-8601 text of
\* the instant the input date names or, when the input has no date, of the
\* clock reading taken at the create.
C3_Amended ==
  (last.op \in CreateOps /\ last.status = 200) =>
     \A listing \in ListAfterCreate :
        \E i \in 1 .. Len(listing) :
           /\ HasAssignedId(listing[i], last.input)
           /\ listing[i]["_id"] = last.body["_id"]
           /\ \A k \in DeclaredFields(last.op) :
                 /\ k \in DOMAIN listing[i]
                 /\ IF last.op = "create_expense" /\ k = "date"
                      THEN ListedDateFor(last.input, listing[i][k])
                      ELSE listing[i][k] = Get(last.input, k)

C3_Witness ==
  /\ last.op = "create_expense" /\ last.status = 200
  /\ "date" \notin DOMAIN last.input
  /\ Cardinality(store["expense"]) = 2

\* C4: a list of expenses with limit N >= 0 returns at most N records, N = 0
\* included; without a limit it returns every stored expense.
C4_LimitBoundsListing ==
  (last.op = "list_expenses" /\ last.status = 200) =>
     IF last.input.limit = NoneV
       THEN /\ Len(last.body) = Cardinality(store["expense"])
            /\ {last.body[i]["_id"] : i \in 1 .. Len(last.body)}
                 = {str(d["_id"]) : d \in store["expense"]}
       ELSE Len(last.body) <= last.input.limit.n

C4_Witness ==
  /\ last.op = "list_expenses" /\ last.status = 200
  /\ last.input.limit = Num(0)
  /\ store["expense"] # {}
  /\ last.body = << >>

\* the stored budget d passes every filter the query q provides
MatchesQuery(d, q) ==
  /\ q.month = NoneV \/ d.month = q.month
  /\ q.year = NoneV \/ d.year = q.year
  /\ q.category_id = NoneV \/ d.category_id = q.category_id

\* C5: a list of budgets returns exactly the stored budgets equal to the query
\* on every provided filter field; a filter not provided constrains nothing.
C5_ExactMatchFilter ==
  (last.op = "list_budgets" /\ last.status = 200) =>
     /\ Len(last.body) = Cardinality({d \in store["budget"] : MatchesQuery(d, last.input)})
     /\ {last.body[i]["_id"] : i \in 1 .. Len(last.body)}
          = {str(d["_id"]) : d \in {e \in store["budget"] : MatchesQuery(e, last.input)}}
     /\ \A i \in 1 .. Len(last.body) :
           \E d \in store["budget"] :
              /\ MatchesQuery(d, last.input)
              /\ \A k \in DOMAIN d \ {"_id"} : last.body[i][k] = d[k]

C5_Witness ==
  /\ last.op = "list_budgets" /\ last.status = 200
  /\ last.input.month = Num(3) /\ last.input.year = Num(2024)
  /\ Len(last.body) = 1
  /\ Cardinality(store["budget"]) = 2

\* stored and listed dates
C6_State ==
  /\ \A d \in store["expense"] : "date" \in DOMAIN d /\ IsDatetime(d.date)
  /\ (last.op = "list_expenses" /\ last.status = 200) =>
        \A i \in 1 .. Len(last.body) :
           \E d \in store["expense"] :
              /\ str(d["_id"]) = last.body[i]["_id"]
              /\ "date" \in DOMAIN last.body[i]
              /\ IsStr(last.body[i].date)
              /\ last.body[i].date.s = "2024-01-01T00:00:0" \o Digits[d.date.tick + 1]

\* the date of the expense a create inserts
C6_Step ==
  (store'["expense"] # store["expense"] /\ last'.op = "create_expense") =>
     \A d \in store'["expense"] \ store["expense"] :
        IF Get(last'.input, "date") = NoneV
          THEN d.date = Datetime(now) /\ now' = now
          ELSE \E k \in Ticks : /\ last'.input.date \in {isoformat(Datetime(k)), IsoSpace(k)}
                                /\ d.date = Datetime(k)

\* C6: an expense created without a date is stored with the clock reading
\* taken while the create is handled, an explicit date is stored as the instant
\* it names, every stored expense has a date, and every listed expense carries
\* its stored date as ISO-8601 text.
C6_DateDefaulting == []C6_State /\ [][C6_Step]_vars

C6_Witness ==
  /\ last.op = "list_expenses" /\ last.status = 200
  /\ \E i \in 1 .. Len(last.body) : last.body[i].date = isoformat(Datetime(1))
  /\ \E d \in store["expense"] : d.title = Str("AWS bill") /\ d.date = Datetime(1)

\* C7: in every document a list request returns, the identifier is a string
\* (never the store's identifier type) and every timestamp field of the stored
\* document is rendered as ISO-8601 text.
C7_NormalizedListings ==
  (last.op \in ListOps /\ last.status = 200) =>
     \A i \in 1 .. Len(last.body) :
        /\ "_id" \in DOMAIN last.body[i] /\ IsStr(last.body[i]["_id"])
        /\ \A k \in DOMAIN last.body[i] : last.body[i][k].t \notin {"ObjectId", "datetime"}
        /\ \E d \in AllDocs :
              /\ str(d["_id"]) = last.body[i]["_id"]
              /\ \A k \in DOMAIN d :
                    IsDatetime(d[k]) =>
                       /\ IsStr(last.body[i][k])
                       /\ last.body[i][k].s = "2024-01-01T00:00:0" \o Digits[d[k].tick + 1]

C7_Witness ==
  /\ last.op = "list_categories" /\ last.status = 200
  /\ Len(last.body) = 2

\* every value a client supplied in a request
ClientValues ==
  UNION {{p[k] : k \in DOMAIN p} :
           p \in CategoryInputs \cup ExpenseInputs \cup BudgetInputs
                 \cup {r[2] : r \in ConcurrentRequests}}

Succeeded(w) == pending[w].phase = "done" /\ pending[w].resp.status = 200

\* C8: under any interleaving of concurrent creates, every stored document has
\* a store-assigned identifier, unique among the stored documents and no
\* client-supplied value; every create that succeeded is persisted exactly
\* once, and its response carries the identifier of the document it inserted.
C8_ConcurrentCreates ==
  /\ \A d \in AllDocs :
        /\ d["_id"].t = "ObjectId" /\ d["_id"].oid < nextOid
        /\ d["_id"] \notin ClientValues /\ str(d["_id"]) \notin ClientValues
  /\ \A d1 \in AllDocs : \A d2 \in AllDocs : d1["_id"] = d2["_id"] => d1 = d2
  /\ Cardinality(AllDocs) = nextOid
  /\ \A w \in Workers :
        Succeeded(w) =>
           LET r == pending[w].resp
               mine == {d \in AllDocs : str(d["_id"]) = r.body["_id"]}
           IN  /\ Cardinality(mine) = 1
               /\ mine \subseteq store[CollectionOf(r.op)]
               /\ \A d \in mine : \A k \in DeclaredFields(r.op) :
                     /\ d[k] = r.body[k]
                     /\ (k # "date" => d[k] = Get(r.input, k))
  /\ \A v \in Workers : \A w \in Workers :
        (v # w /\ Succeeded(v) /\ Succeeded(w)) =>
           pending[v].resp.body["_id"] # pending[w].resp.body["_id"]

C8_Witness ==
  /\ Succeeded(1) /\ Succeeded(2)
  /\ pending[2].overlapped
  /\ pending[2].resp.op = "create_category" /\ pending[1].resp.op = "create_expense"
  /\ pending[2].resp.body["_id"] = str(ObjectId(0))
  /\ pending[1].resp.body["_id"] = str(ObjectId(1))

\* what one step may do to the stored documents
C9_Step ==
  /\ \A c \in Collections : store[c] \subseteq store'[c]
  /\ store' # store =>
        /\ last'.op \in CreateOps /\ last'.status = 200
        /\ \A c \in Collections :
              IF c = CollectionOf(last'.op)
                THEN Cardinality(store'[c] \ store[c]) = 1
                ELSE store'[c] = store[c]
  /\ (last' # last /\ (last'.op \notin CreateOps \/ last'.status # 200)) => store' = store
  /\ (last' # last /\ last'.op \in CreateOps /\ last'.status = 200) => store' # store

\* C9: stored documents are never updated or deleted; list requests, the
\* health and diagnostics endpoints and every failed request leave the stored
\* documents unchanged, and a successful create adds exactly one document to
\* exactly one collection.
C9_AppendOnlyStore == [][C9_Step]_vars

C9_Witness ==
  /\ Cardinality(AllDocs) = 2
  /\ store["category"] # {}
  /\ last.op = "list_categories" /\ last.status = 200

\* C10 (as stated): every budget document create budget persisted has a period
\* field equal to "month".
C10_BudgetPeriodStored ==
  \A d \in store["budget"] : "period" \in DOMAIN d /\ d.period = BudgetPeriod
====
